---- MODULE Spec2Model ----
(***************************************************************************)
(* Session-to-connection routing and escalation continuity of the          *)
(* multi-modal contact-center demo: the API Lambda (contact orchestrator), *)
(* the chat-routing Lambda (escalation queue router), the WebSocket Lambda *)
(* (realtime gateway and connection registry), the contact-event Lambda    *)
(* (event router) and the widget calls that drive them.                    *)
(*                                                                         *)
(* Conventions: a contact id is a positive integer, 0 stands for an absent *)
(* id (undefined); an absent string attribute is "none".  Every action     *)
(* records in `last` what the handler it models did and returned, so that  *)
(* a statement about "after the handler completes" is a state predicate.   *)
(***************************************************************************)
EXTENDS Integers, Sequences, FiniteSets, TLC

\* ---------------------------------------------------------------- bounds
MaxContacts == 2
MaxGonePushes == 2
MaxCompanions == 2

Agents == {"agent-1", "agent-2"}
ConnIds == {"conn-1", "conn-2"}
\* ids a request can name: absent (0), any created contact, or an id the
\* service has not issued
RequestIds == 0..MaxContacts

VARIABLES
  env,        \* the deployment: process.env of the chat-routing Lambda and
              \* whether the connections table has the index userIdIndex
  contacts,   \* the contact-center service: contacts[i] is the contact with id i
  events,     \* lifecycle events the service has emitted (delivered at least once)
  registry,   \* the connections table, keyed by connectionId
  transport,  \* API Gateway's view of each WebSocket connection
  inflight,   \* sendToConnection invocations between the 410 and their DeleteCommand
  gonePushes, \* sendToConnection invocations that PostToConnection answered 410
  store,      \* sessionStorage item 'userId' of the browser session
  chatWidget, \* ChatWidget.contactId
  escalationWidget, \* EscalationWidget.chatContactId and .voiceContactId
  wsClient,   \* the WebSocketClient instance of the page
  browser,    \* the WebSocket objects and timers the WebSocketClient created
  voiceWidget, \* VoiceWidget.contactId
  agentApp,   \* AppState of the agent app and the contacts its CCP holds
  last        \* what the most recent handler invocation did and returned

serviceVars == <<contacts, events>>
gatewayVars == <<registry, transport, inflight, gonePushes>>
clientVars == <<store, chatWidget, escalationWidget>>
appVars == <<wsClient, voiceWidget, agentApp>>

vars == <<env, serviceVars, gatewayVars, clientVars, appVars, browser, last>>

\* ------------------------------------------------- chat-routing Lambda
AccountId == "123456789012"
InstanceId == "test-instance-id"
\* a queue ARN arn:aws:connect:<region>:<account>:instance/<instance>/queue/<id>
Arn(region, account, instance, queueId) == <<region, account, instance, queueId>>

DEFAULT_QUEUE_ARN == Arn("us-west-2", AccountId, InstanceId, "default-queue")

\* a template literal renders an unset environment value as "undefined"
Regions == {"us-west-2", "undefined"}

getAgentQueueArn(e, agentId) == Arn(e.AWS_REGION, AccountId, InstanceId, agentId)

\* DescribeContact of the contact-center service.  fault is what the service
\* does to this call besides looking the id up.
DescribeFaults == {"none", "AccessDenied", "Exception", "EmptyResponse"}

DescribeContact(cs, id, fault) ==
  IF fault = "AccessDenied" \/ fault = "Exception"
    THEN [outcome |-> fault, Contact |-> 0]
  ELSE IF fault = "EmptyResponse"
    THEN [outcome |-> "ok", Contact |-> 0]
  ELSE IF id \in 1..Len(cs)
    THEN [outcome |-> "ok", Contact |-> id]
  ELSE [outcome |-> "ResourceNotFoundException", Contact |-> 0]

\* a getContactDetails whose lookup ignores the failure of the call
getContactDetailsIgnoringFailure(cs, id, fault) ==
  IF id \in 1..Len(cs) THEN id ELSE 0

\* getContactDetails: response.Contact, or null (0) when the call throws
getContactDetails(cs, id, fault) ==
  LET r == DescribeContact(cs, id, fault)
  IN IF r.outcome = "ok" THEN r.Contact ELSE 0

\* the shapes of event the handler can be invoked with: the event of the
\* contact flow, and events lacking Details, ContactData or Attributes
MalformedShapes == {"noDetails", "noContactData", "noAttributes"}

\* the body of the handler's try block: a returned queueArn, or a TypeError
\* thrown by destructuring an undefined value
RoutingBody(e, cs, shape, attrs, fault) ==
  IF shape = "noDetails" \/ shape = "noContactData"
    THEN [thrown |-> TRUE, queueArn |-> <<>>, describeCalls |-> 0]
  ELSE LET relatedContactId == IF shape = "noAttributes" THEN 0
                               ELSE attrs.relatedContactId
       IN IF relatedContactId = 0
            THEN [thrown |-> FALSE, queueArn |-> DEFAULT_QUEUE_ARN, describeCalls |-> 0]
          ELSE LET voiceContact == getContactDetails(cs, relatedContactId, fault)
               IN IF voiceContact = 0 \/ cs[voiceContact].agent = "none"
                    THEN [thrown |-> FALSE, queueArn |-> DEFAULT_QUEUE_ARN,
                          describeCalls |-> 1]
                  ELSE [thrown |-> FALSE,
                        queueArn |-> getAgentQueueArn(e, cs[voiceContact].agent),
                        describeCalls |-> 1]

\* the handler without its catch block
RoutingHandlerNoCatch(e, cs, shape, attrs, fault) ==
  RoutingBody(e, cs, shape, attrs, fault)

\* exports.handler of the chat-routing Lambda: the catch block turns every
\* exception of the body into the default queue
RoutingHandler(e, cs, shape, attrs, fault) ==
  LET r == RoutingBody(e, cs, shape, attrs, fault)
  IN IF r.thrown
       THEN [thrown |-> FALSE, queueArn |-> DEFAULT_QUEUE_ARN,
             describeCalls |-> r.describeCalls]
     ELSE r

\* ------------------------------------------------------------ API Lambda
NoAttributes == [userId |-> "none", relatedContactId |-> 0, InitiationMethod |-> "none"]

\* a contact as the service keeps it
NewContact(channel, attrs) ==
  [channel |-> channel, state |-> "INCOMING", Attributes |-> attrs,
   agent |-> "none", queue |-> <<>>]

\* createResponse(statusCode, body)
createResponse(statusCode, errorCode, contactId) ==
  [statusCode |-> statusCode, errorCode |-> errorCode, contactId |-> contactId]

\* handleStartChat and handleStartVoice behind exports.handler's try/catch:
\* Attributes are exactly body.attributes; an exception of the service call
\* becomes a 500 response.  createFails is the service rejecting the call.
handleStart(cs, channel, body, createFails) ==
  IF createFails
    THEN [response |-> createResponse(500, "ServiceError", 0),
          contacts |-> cs, describeCalls |-> 0, createCalls |-> 1]
  ELSE [response |-> createResponse(200, "none", Len(cs) + 1),
        contacts |-> Append(cs, NewContact(channel, body.attributes)),
        describeCalls |-> 0, createCalls |-> 1]

handleStartChat(cs, body, createFails) == handleStart(cs, "CHAT", body, createFails)

handleStartVoice(cs, body, createFails) == handleStart(cs, "VOICE", body, createFails)

\* StopContact of the contact-center service: the service rejects the call
\* (ContactNotFoundException) unless the id names a contact that is active
StopContactRejects(cs, id) ==
  \/ id \notin 1..Len(cs)
  \/ cs[id].state = "ENDED"

\* handleStopContact behind exports.handler's try/catch: 400 without a
\* contactId, a 500 response for the exception of a rejected StopContact,
\* 200 once the service has stopped the contact
handleStopContact(cs, contactId) ==
  IF contactId = 0
    THEN [response |-> createResponse(400, "none", 0), contacts |-> cs]
  ELSE IF StopContactRejects(cs, contactId)
    THEN [response |-> createResponse(500, "ContactNotFoundException", 0),
          contacts |-> cs]
  ELSE [response |-> createResponse(200, "none", contactId),
        contacts |-> [cs EXCEPT ![contactId].state = "ENDED"]]

\* callAPI throws for a response that is not ok (status outside 200..299)
callAPIThrows(response) == response.statusCode \notin 200..299

\* the lifecycle event the service emits for contact c
LifecycleEvent(c, channel, eventType) ==
  [contactId |-> c, eventType |-> eventType, channel |-> channel]

\* the events after an API call: INITIATED for the contact it created
EventsAfter(evs, r, channel) ==
  IF r.response.statusCode = 200
    THEN evs \cup {LifecycleEvent(r.response.contactId, channel, "INITIATED")}
  ELSE evs

\* ------------------------------------------------------------- widgets
\* the identifiers generateUserId can produce
FreshIds == {"u1", "u2"}

\* a getUserId that generates an identifier on every call
getUserIdAlwaysGenerates(st, fresh) == fresh

\* getUserId: the stored identifier, or a generated one that is stored
\* before it is returned
getUserId(st, fresh) == IF st = "none" THEN fresh ELSE st

\* what every action that is no handler invocation leaves in `last`
Quiet(op) ==
  [op |-> op, contact |-> 0, related |-> 0, created |-> 0, userId |-> "none",
   shape |-> "none", eventType |-> "none", fault |-> "none", status |-> 0,
   errorCode |-> "none",
   describeCalls |-> 0, createCalls |-> 0, queueArn |-> <<>>, thrown |-> FALSE,
   conn |-> "none", push |-> "none", message |-> <<>>, removed |-> FALSE,
   lookups |-> 0, accept |-> FALSE, stopCalls |-> 0, queried |-> FALSE,
   eventUserId |-> "none", posts |-> 0]

ApiResult(op, body, r, session) ==
  [Quiet(op) EXCEPT !.created = r.response.contactId,
                    !.related = body.relatedContactId,
                    !.userId = session,
                    !.status = r.response.statusCode,
                    !.errorCode = r.response.errorCode,
                    !.describeCalls = r.describeCalls,
                    !.createCalls = r.createCalls]

\* ChatWidget.start: POST /start-chat-contact with the session's userId
ChatWidgetStart(fresh, createFails) ==
  /\ Len(contacts) < MaxContacts
  /\ LET userId == getUserId(store, fresh)
         body == [attributes |-> [NoAttributes EXCEPT !.userId = userId],
                  relatedContactId |-> 0]
         r == handleStartChat(contacts, body, createFails)
     IN /\ store' = userId
        /\ contacts' = r.contacts
        /\ events' = EventsAfter(events, r, "CHAT")
        /\ chatWidget' = IF r.response.statusCode = 200
                           THEN r.response.contactId ELSE chatWidget
        /\ last' = ApiResult("startChat", body, r, userId)
  /\ UNCHANGED <<env, browser, appVars, gatewayVars, escalationWidget>>

\* VoiceWidget.start: POST /start-voice-contact with the session's userId
VoiceWidgetStart(fresh, createFails) ==
  /\ Len(contacts) < MaxContacts
  /\ LET userId == getUserId(store, fresh)
         body == [attributes |-> [NoAttributes EXCEPT !.userId = userId],
                  relatedContactId |-> 0]
         r == handleStartVoice(contacts, body, createFails)
     IN /\ store' = userId
        /\ contacts' = r.contacts
        /\ events' = EventsAfter(events, r, "VOICE")
        /\ voiceWidget' = IF r.response.statusCode = 200
                            THEN r.response.contactId ELSE voiceWidget
        /\ last' = ApiResult("startVoice", body, r, userId)
  /\ UNCHANGED <<env, browser, wsClient, agentApp, gatewayVars, chatWidget, escalationWidget>>

\* a call of getUserId by any code of the page; fresh is what generateUserId
\* would produce
GetUserId(fresh) ==
  /\ LET userId == getUserId(store, fresh)
     IN /\ store' = userId
        /\ last' = [Quiet("getUserId") EXCEPT
                      !.userId = userId,
                      !.lookups = IF last.op = "getUserId" THEN 2 ELSE 1]
  /\ UNCHANGED <<env, browser, appVars, serviceVars, gatewayVars, chatWidget, escalationWidget>>

\* clearUserId: the item is removed from sessionStorage
ClearUserId ==
  /\ store' = "none"
  /\ last' = Quiet("clearUserId")
  /\ UNCHANGED <<env, browser, appVars, serviceVars, gatewayVars, chatWidget, escalationWidget>>

\* new WebSocketClient(): no socket, not connected, no reconnect attempt
\* made and none scheduled, userId null
NewWebSocketClient ==
  [ws |-> "none", readyState |-> "none", isConnected |-> FALSE,
   reconnectAttempts |-> 0, scheduled |-> FALSE, userId |-> "none"]

maxReconnectAttempts == 5

\* what new WebSocket(wsUrl) can be: a connection API Gateway has not seen
\* yet, or a socket that never reaches the endpoint
Sockets == ConnIds \cup {"unreachable"}

\* a connect that generates the identifier it registers with
connectGeneratesUserId(client, st, fresh, c) ==
  [client EXCEPT !.userId = fresh, !.ws = c, !.readyState = "CONNECTING"]

\* WebSocketClient.connect up to new WebSocket(wsUrl): this.userId is what
\* getUserId returns, this.ws the new socket
connect(client, st, fresh, c) ==
  [client EXCEPT !.userId = getUserId(st, fresh), !.ws = c,
                 !.readyState = "CONNECTING"]

\* WebSocketClient.disconnect: the socket is closed and forgotten; a
\* reconnect that is scheduled stays scheduled
disconnect(client) ==
  IF client.ws = "none" THEN client
  ELSE [client EXCEPT !.ws = "none", !.readyState = "none", !.isConnected = FALSE]

\* wsClient.connect() called by the page (VoiceWidget.start)
WebSocketConnect(c, fresh) ==
  /\ wsClient.readyState \in {"none", "CLOSED"}
  /\ ~wsClient.scheduled
  /\ c \in ConnIds => transport[c] = "new"
  /\ wsClient' = connect(wsClient, store, fresh, c)
  /\ store' = getUserId(store, fresh)
  /\ last' = [Quiet("wsConnect") EXCEPT !.conn = c, !.userId = wsClient'.userId]
  /\ UNCHANGED <<env, browser, voiceWidget, agentApp, serviceVars, gatewayVars,
                 chatWidget, escalationWidget>>

\* ws.onopen: connected, the attempts are reset, and registerWithUserId
\* sends {action: 'register', userId: this.userId}
WebSocketOnOpen ==
  /\ wsClient.readyState = "CONNECTING"
  /\ wsClient.ws \in ConnIds
  /\ transport[wsClient.ws] # "new"
  /\ wsClient' = [wsClient EXCEPT !.readyState = "OPEN", !.isConnected = TRUE,
                                  !.reconnectAttempts = 0]
  /\ last' = [Quiet("wsOpen") EXCEPT !.conn = wsClient.ws, !.userId = wsClient.userId]
  /\ UNCHANGED <<env, browser, voiceWidget, agentApp, serviceVars, gatewayVars, clientVars>>

\* ws.onclose: the socket failed to open or the connection is gone.  An
\* unclean close schedules a reconnect while reconnectAttempts is below
\* maxReconnectAttempts (scheduleReconnect increments it).
WebSocketOnClose(wasClean) ==
  /\ wsClient.readyState \in {"CONNECTING", "OPEN"}
  /\ \/ wsClient.ws = "unreachable" /\ ~wasClean
     \/ /\ wsClient.ws \in ConnIds
        /\ \/ transport[wsClient.ws] = "vanished" /\ ~wasClean
           \/ transport[wsClient.ws] = "closed"
  /\ LET again == ~wasClean /\ wsClient.reconnectAttempts < maxReconnectAttempts
     IN wsClient' = [wsClient EXCEPT
                       !.readyState = "CLOSED", !.isConnected = FALSE,
                       !.reconnectAttempts = IF again THEN @ + 1 ELSE @,
                       !.scheduled = IF again THEN TRUE ELSE @]
  /\ last' = [Quiet("wsClose") EXCEPT !.conn = wsClient.ws]
  /\ UNCHANGED <<env, browser, voiceWidget, agentApp, serviceVars, gatewayVars, clientVars>>

\* the timer of scheduleReconnect: connect() unless connected by then
WebSocketReconnect(c, fresh) ==
  /\ wsClient.scheduled
  /\ c \in ConnIds => transport[c] = "new"
  /\ LET client == [wsClient EXCEPT !.scheduled = FALSE]
     IN /\ wsClient' = IF client.isConnected THEN client
                       ELSE connect(client, store, fresh, c)
        /\ store' = IF client.isConnected THEN store ELSE getUserId(store, fresh)
  /\ last' = [Quiet("wsReconnect") EXCEPT !.conn = c, !.userId = wsClient'.userId]
  /\ UNCHANGED <<env, browser, voiceWidget, agentApp, serviceVars, gatewayVars,
                 chatWidget, escalationWidget>>

\* wsClient.disconnect() called by the page
WebSocketDisconnect ==
  /\ wsClient.ws # "none"
  /\ wsClient' = disconnect(wsClient)
  /\ last' = [Quiet("wsDisconnect") EXCEPT !.conn = wsClient.ws]
  /\ UNCHANGED <<env, browser, voiceWidget, agentApp, serviceVars, gatewayVars, clientVars>>

\* ------------------------------------ WebSocketClient, socket by socket
\* Every connect() creates a WebSocket object whose onopen, onclose and
\* onerror closures act on the WebSocketClient, whether or not this.ws
\* still holds that object; every scheduleReconnect starts a timer that
\* nothing cancels.
MaxSockets == 3
MaxTimers == 2

SocketIds == {"ws-" \o ToString(i) : i \in 1..MaxSockets}

\* the page after load: no WebSocket object, no timer.  attempts counts the
\* connect() calls made by reconnect timers since the last onopen.
NewBrowser ==
  [sockets |-> [s \in SocketIds |-> "unused"], timers |-> 0, attempts |-> 0]

\* this.ws.readyState
Held(client, sockets) ==
  [client EXCEPT !.readyState = IF client.ws = "none" THEN "none"
                                ELSE sockets[client.ws]]

\* an identity for the object new WebSocket(wsUrl) returns: one that no
\* event can come from any more and that this.ws does not hold
Unreferenced ==
  {s \in SocketIds : browser.sockets[s] \in {"unused", "CLOSED"} /\ s # wsClient.ws}

NewSocket == CHOOSE s \in Unreferenced : TRUE

\* ws.onopen: isConnected, the attempts are reset (registerWithUserId
\* follows)
onopen(client) == [client EXCEPT !.isConnected = TRUE, !.reconnectAttempts = 0]

\* ws.onclose (after ws.onerror, which sets isConnected = false as well):
\* not connected; an unclean close below maxReconnectAttempts calls
\* scheduleReconnect, which increments reconnectAttempts
onclose(client, wasClean) ==
  LET again == ~wasClean /\ client.reconnectAttempts < maxReconnectAttempts
  IN [client EXCEPT !.isConnected = FALSE,
                    !.reconnectAttempts = IF again THEN @ + 1 ELSE @,
                    !.scheduled = IF again THEN TRUE ELSE @]

\* wsClient.connect() called by the page: VoiceWidget.start calls it
\* whatever the state of the client
PageConnect(fresh) ==
  /\ Unreferenced # {}
  /\ LET s == NewSocket
         sockets == [browser.sockets EXCEPT ![s] = "CONNECTING"]
     IN /\ wsClient' = Held(connect(wsClient, store, fresh, s), sockets)
        /\ browser' = [browser EXCEPT !.sockets = sockets]
        /\ store' = getUserId(store, fresh)
        /\ last' = [Quiet("wsConnect") EXCEPT !.conn = s, !.userId = wsClient'.userId]
  /\ UNCHANGED <<env, voiceWidget, agentApp, serviceVars, gatewayVars,
                 chatWidget, escalationWidget>>

\* the open event of socket s.  registerWithUserId sends through this.ws:
\* the message leaves only when the socket this.ws holds is open.
SocketOpen(s) ==
  /\ browser.sockets[s] = "CONNECTING"
  /\ LET sockets == [browser.sockets EXCEPT ![s] = "OPEN"]
     IN /\ wsClient' = Held(onopen(wsClient), sockets)
        /\ browser' = [browser EXCEPT !.sockets = sockets, !.attempts = 0]
        /\ last' = [Quiet("wsOpen") EXCEPT
                      !.conn = s, !.userId = wsClient.userId,
                      !.push = IF wsClient.ws # "none" /\ sockets[wsClient.ws] = "OPEN"
                                 THEN "sent" ELSE "notSent"]
  /\ UNCHANGED <<env, voiceWidget, agentApp, serviceVars, gatewayVars, clientVars>>

\* the close event of socket s.  A socket that never opened closes
\* uncleanly; an open socket, or one whose closing handshake disconnect()
\* started, closes cleanly or is lost.
SocketClose(s, wasClean) ==
  /\ browser.sockets[s] \in {"CONNECTING", "OPEN", "CLOSING", "CLOSING_UNOPENED"}
  /\ browser.sockets[s] \in {"CONNECTING", "CLOSING_UNOPENED"} => ~wasClean
  /\ LET sockets == [browser.sockets EXCEPT ![s] = "CLOSED"]
         client == onclose(wsClient, wasClean)
         timer == client.reconnectAttempts # wsClient.reconnectAttempts
     IN /\ timer => browser.timers < MaxTimers
        /\ wsClient' = Held(client, sockets)
        /\ browser' = [browser EXCEPT
                         !.sockets = sockets,
                         !.timers = IF timer THEN @ + 1 ELSE @]
        /\ last' = [Quiet("wsClose") EXCEPT
                      !.conn = s, !.shape = IF wasClean THEN "clean" ELSE "unclean"]
  /\ UNCHANGED <<env, voiceWidget, agentApp, serviceVars, gatewayVars, clientVars>>

\* a timer of scheduleReconnect fires: connect() unless isConnected
ReconnectTimer(fresh) ==
  /\ browser.timers > 0
  /\ ~wsClient.isConnected => Unreferenced # {}
  /\ LET s == NewSocket
         sockets == IF wsClient.isConnected THEN browser.sockets
                    ELSE [browser.sockets EXCEPT ![s] = "CONNECTING"]
         client == [wsClient EXCEPT !.scheduled = browser.timers > 1]
     IN /\ wsClient' = IF wsClient.isConnected THEN client
                       ELSE Held(connect(client, store, fresh, s), sockets)
        /\ browser' = [browser EXCEPT
                         !.sockets = sockets, !.timers = @ - 1,
                         !.attempts = IF wsClient.isConnected THEN @ ELSE @ + 1]
        /\ store' = IF wsClient.isConnected THEN store ELSE getUserId(store, fresh)
        /\ last' = [Quiet("wsReconnect") EXCEPT
                      !.conn = IF wsClient.isConnected THEN "none" ELSE s,
                      !.userId = wsClient'.userId]
  /\ UNCHANGED <<env, voiceWidget, agentApp, serviceVars, gatewayVars,
                 chatWidget, escalationWidget>>

\* wsClient.disconnect() called by the page: this.ws.close(1000), this.ws =
\* null, isConnected = false.  The handlers stay on the socket and no timer
\* is cancelled.
PageDisconnect ==
  /\ wsClient.ws # "none"
  /\ LET s == wsClient.ws
         sockets == [browser.sockets EXCEPT
                       ![s] = IF @ = "OPEN" THEN "CLOSING"
                              ELSE IF @ = "CONNECTING" THEN "CLOSING_UNOPENED"
                              ELSE @]
     IN /\ wsClient' = disconnect(wsClient)
        /\ browser' = [browser EXCEPT !.sockets = sockets]
        /\ last' = [Quiet("wsDisconnect") EXCEPT !.conn = s]
  /\ UNCHANGED <<env, voiceWidget, agentApp, serviceVars, gatewayVars, clientVars>>

\* AppState of the agent app when the page has loaded: no contact, no voice
\* contact tracked; status is what the CCP reports for each contact,
\* notified the incoming contacts whose incoming event has been delivered, accepts
\* the contact.accept calls made on each contact
NewAppState ==
  [contacts |-> {}, voiceContactIds |-> {},
   status |-> [c \in 1..MaxContacts |-> "none"],
   notified |-> {},
   accepts |-> [c \in 1..MaxContacts |-> 0]]

\* EscalationWidget before any escalation
NoEscalation == [chatContactId |-> 0, voiceContactId |-> 0]

\* ChatWidget.transitionToEscalationWidget: the EscalationWidget takes the
\* chat and the voice contact
transitionToEscalationWidget(chatContactId, voiceContactId) ==
  [chatContactId |-> chatContactId, voiceContactId |-> voiceContactId]

\* ChatWidget.handleEscalationClick: POST /start-voice-contact with
\* {relatedContactId: this.contactId} and nothing else; on success the
\* transition to the EscalationWidget clears ChatWidget.contactId
handleEscalationClick(createFails, transitionOk) ==
  /\ chatWidget # 0
  /\ Len(contacts) < MaxContacts
  /\ store # "none"
  /\ LET body == [attributes |-> NoAttributes, relatedContactId |-> chatWidget]
         r == handleStartVoice(contacts, body, createFails)
     IN /\ contacts' = r.contacts
        /\ events' = EventsAfter(events, r, "VOICE")
        /\ chatWidget' = IF r.response.statusCode = 200 /\ transitionOk
                           THEN 0 ELSE chatWidget
        /\ escalationWidget' =
             IF r.response.statusCode = 200 /\ transitionOk
               THEN transitionToEscalationWidget(chatWidget, r.response.contactId)
             ELSE escalationWidget
        /\ last' = ApiResult("escalate", body, r, store)
  /\ UNCHANGED <<env, browser, appVars, gatewayVars, store>>

\* POST /start-voice-contact by any other caller: a relatedContactId that
\* names any contact or none that exists, and no attributes
StartVoiceRequest(related, createFails) ==
  /\ related # 0
  /\ Len(contacts) < MaxContacts
  /\ LET body == [attributes |-> NoAttributes, relatedContactId |-> related]
         r == handleStartVoice(contacts, body, createFails)
     IN /\ contacts' = r.contacts
        /\ events' = EventsAfter(events, r, "VOICE")
        /\ last' = ApiResult("startVoiceRequest", body, r, "none")
  /\ UNCHANGED <<env, browser, appVars, gatewayVars, clientVars>>

\* POST /start-chat-contact by any other caller, whose attributes name a
\* related contact: handleStartChat copies body.attributes as they are
StartChatRequest(related, createFails) ==
  /\ related # 0
  /\ Len(contacts) < MaxContacts
  /\ LET body == [attributes |-> [NoAttributes EXCEPT !.relatedContactId = related],
                  relatedContactId |-> 0]
         r == handleStartChat(contacts, body, createFails)
     IN /\ contacts' = r.contacts
        /\ events' = EventsAfter(events, r, "CHAT")
        /\ last' = ApiResult("startChatRequest", body, r, "none")
  /\ UNCHANGED <<env, browser, appVars, gatewayVars, clientVars>>

\* the events after POST /stop-contact: DISCONNECTED for the contact stopped
EventsAfterStop(evs, cs, r) ==
  IF r.response.statusCode = 200
    THEN evs \cup {LifecycleEvent(r.response.contactId,
                                  cs[r.response.contactId].channel, "DISCONNECTED")}
  ELSE evs

\* ChatWidget.end as a function of the service state: no call without a
\* contactId; the exception of callAPI is caught inside and shown as an
\* error, nothing is thrown to the caller
ChatWidgetEndCall(cs, evs, contactId) ==
  IF contactId = 0
    THEN [contacts |-> cs, events |-> evs, stopCalls |-> 0, status |-> 0]
  ELSE LET r == handleStopContact(cs, contactId)
       IN [contacts |-> r.contacts, events |-> EventsAfterStop(evs, cs, r),
           stopCalls |-> 1, status |-> r.response.statusCode]

\* ChatWidget.end from the End Chat button
ChatWidgetEnd ==
  /\ LET e == ChatWidgetEndCall(contacts, events, chatWidget)
     IN /\ contacts' = e.contacts
        /\ events' = e.events
        /\ last' = [Quiet("chatEnd") EXCEPT
                      !.contact = chatWidget, !.status = e.status,
                      !.stopCalls = e.stopCalls]
  /\ UNCHANGED <<env, browser, appVars, gatewayVars, clientVars>>

\* VoiceWidget.endVoiceOnly: POST /stop-contact for the voice contact; an
\* exception of callAPI is caught and shown as an error
endVoiceOnly ==
  /\ LET r == handleStopContact(contacts, voiceWidget)
     IN /\ contacts' = r.contacts
        /\ events' = EventsAfterStop(events, contacts, r)
        /\ last' = [Quiet("endVoiceOnly") EXCEPT
                      !.contact = voiceWidget,
                      !.status = r.response.statusCode,
                      !.errorCode = r.response.errorCode,
                      !.thrown = callAPIThrows(r.response),
                      !.stopCalls = 1]
  /\ UNCHANGED <<env, browser, appVars, gatewayVars, clientVars>>

\* VoiceWidget.hangupAll: POST /stop-contact for the voice contact, then
\* ChatWidget.end; the exception of the first callAPI leaves the try block
\* before ChatWidget.end and is shown as "Failed to hang up".  last.thrown
\* is that exception, last.related the chat the widget holds.
hangupAll ==
  /\ LET r == handleStopContact(contacts, voiceWidget)
         threw == callAPIThrows(r.response)
         e == IF threw
                THEN [contacts |-> r.contacts, events |-> events,
                      stopCalls |-> 0, status |-> 0]
              ELSE ChatWidgetEndCall(r.contacts,
                                     EventsAfterStop(events, contacts, r), chatWidget)
     IN /\ contacts' = e.contacts
        /\ events' = e.events
        /\ last' = [Quiet("hangupAll") EXCEPT
                      !.contact = voiceWidget, !.related = chatWidget,
                      !.status = r.response.statusCode,
                      !.errorCode = r.response.errorCode,
                      !.thrown = threw,
                      !.stopCalls = 1 + e.stopCalls]
  /\ UNCHANGED <<env, browser, appVars, gatewayVars, clientVars>>

\* VoiceWidget.handleDisconnected: the meeting session reports the end of
\* the call; the widget closes the WebSocket and forgets the contact
VoiceWidgetDisconnected ==
  /\ voiceWidget # 0
  /\ contacts[voiceWidget].state = "ENDED"
  /\ voiceWidget' = 0
  /\ wsClient' = disconnect(wsClient)
  /\ last' = Quiet("voiceDisconnected")
  /\ UNCHANGED <<env, browser, agentApp, serviceVars, gatewayVars, clientVars>>

\* ChatWidget.handleEnded: the chat session reports the end of the contact
ChatWidgetEnded ==
  /\ chatWidget # 0
  /\ contacts[chatWidget].state = "ENDED"
  /\ chatWidget' = 0
  /\ last' = Quiet("chatEnded")
  /\ UNCHANGED <<env, browser, appVars, serviceVars, gatewayVars, store, escalationWidget>>

\* ------------------------------------------ the contact-center service
\* the contact flow invokes the chat-routing Lambda for a new contact and
\* queues the contact where the Lambda says
RouteContact(c, fault) ==
  /\ c \in 1..Len(contacts)
  /\ contacts[c].state = "INCOMING"
  /\ contacts[c].queue = <<>>
  /\ LET r == RoutingHandler(env, contacts, "full", contacts[c].Attributes, fault)
     IN /\ contacts' = IF r.thrown THEN contacts
                       ELSE [contacts EXCEPT ![c].queue = r.queueArn]
        /\ last' = [Quiet("route") EXCEPT
                      !.contact = c,
                      !.related = contacts[c].Attributes.relatedContactId,
                      !.shape = "full", !.fault = fault,
                      !.describeCalls = r.describeCalls,
                      !.queueArn = r.queueArn, !.thrown = r.thrown]
  /\ UNCHANGED <<env, browser, appVars, gatewayVars, clientVars, events>>

\* the chat-routing Lambda invoked with an event that lacks a part
RouteMalformed(shape) ==
  /\ LET r == RoutingHandler(env, contacts, shape, NoAttributes, "none")
     IN last' = [Quiet("route") EXCEPT
                   !.shape = shape, !.describeCalls = r.describeCalls,
                   !.queueArn = r.queueArn, !.thrown = r.thrown]
  /\ UNCHANGED <<env, browser, appVars, serviceVars, gatewayVars, clientVars>>

\* an agent serving the contact's queue is connected to it: any agent for
\* the default queue, the owner for a personal queue that exists
AgentConnect(c, a) ==
  /\ c \in 1..Len(contacts)
  /\ contacts[c].state = "INCOMING"
  /\ \/ contacts[c].queue = DEFAULT_QUEUE_ARN
     \/ contacts[c].queue = Arn("us-west-2", AccountId, InstanceId, a)
  /\ contacts' = [contacts EXCEPT ![c].state = "CONNECTED", ![c].agent = a]
  /\ events' = events \cup {LifecycleEvent(c, contacts[c].channel, "CONNECTED_TO_AGENT")}
  /\ last' = Quiet("agentConnect")
  /\ UNCHANGED <<env, browser, appVars, gatewayVars, clientVars>>

EndContact(c) ==
  /\ c \in 1..Len(contacts)
  /\ contacts[c].state # "ENDED"
  /\ contacts' = [contacts EXCEPT ![c].state = "ENDED"]
  /\ events' = events \cup {LifecycleEvent(c, contacts[c].channel, "DISCONNECTED")}
  /\ last' = Quiet("endContact")
  /\ UNCHANGED <<env, browser, appVars, gatewayVars, clientVars>>

\* ------------------------------------------------------------ agent app
\* the agent signed in to the agent app
AppAgent == "agent-1"

\* the service offers to an agent the contacts of the queues the agent
\* serves: the default queue and the agent's personal queue
OfferedTo(cs, c, a) ==
  /\ c \in 1..Len(cs)
  /\ cs[c].state = "INCOMING"
  /\ \/ cs[c].queue = DEFAULT_QUEUE_ARN
     \/ cs[c].queue = Arn("us-west-2", AccountId, InstanceId, a)

\* checkAndAutoAcceptChat: TRUE when it calls contact.accept.  The chat's
\* relatedContactId is looked up in AppState.voiceContactIds.
checkAndAutoAcceptChat(app, cs, c) ==
  LET relatedContactId == cs[c].Attributes.relatedContactId
  IN relatedContactId # 0 /\ relatedContactId \in app.voiceContactIds

\* the service after the agent has accepted contact c
Accepted(cs, c, a) == [cs EXCEPT ![c].state = "CONNECTED", ![c].agent = a]

\* connect.contact callback, handleContactEvent: the contact is stored, a
\* voice contact is added to voiceContactIds when it is detected, a chat
\* contact is checked for auto-accept.  contact.accept only sends the
\* request: the contact stays incoming until the service has answered.
handleContactEvent(c) ==
  /\ OfferedTo(contacts, c, AppAgent)
  /\ agentApp.status[c] = "none"
  /\ LET voice == contacts[c].channel = "VOICE"
         tracked == IF voice THEN agentApp.voiceContactIds \cup {c}
                    ELSE agentApp.voiceContactIds
         accept == ~voice /\ checkAndAutoAcceptChat(agentApp, contacts, c)
     IN /\ agentApp' = [agentApp EXCEPT
                          !.contacts = @ \cup {c},
                          !.voiceContactIds = tracked,
                          !.status[c] = "incoming",
                          !.accepts[c] = IF accept THEN @ + 1 ELSE @]
        /\ last' = [Quiet("contactEvent") EXCEPT
                      !.contact = c,
                      !.related = contacts[c].Attributes.relatedContactId,
                      !.accept = accept]
  /\ UNCHANGED <<env, browser, wsClient, voiceWidget, serviceVars, gatewayVars, clientVars>>

\* contact.onIncoming, handleContactIncoming: a chat contact is checked for
\* auto-accept again, a voice contact only shows a notification.  The
\* event is delivered once, while the contact is incoming.
handleContactIncoming(c) ==
  /\ c \in 1..Len(contacts)
  /\ agentApp.status[c] = "incoming"
  /\ c \notin agentApp.notified
  /\ contacts[c].state = "INCOMING"
  /\ LET accept == /\ contacts[c].channel = "CHAT"
                   /\ checkAndAutoAcceptChat(agentApp, contacts, c)
     IN /\ agentApp' = [agentApp EXCEPT
                          !.notified = @ \cup {c},
                          !.accepts[c] = IF accept THEN @ + 1 ELSE @]
        /\ last' = [Quiet("contactIncoming") EXCEPT
                      !.contact = c,
                      !.related = contacts[c].Attributes.relatedContactId,
                      !.accept = accept]
  /\ UNCHANGED <<env, browser, wsClient, voiceWidget, serviceVars, gatewayVars, clientVars>>

\* the service answers an accept call made on contact c while the contact
\* is still incoming: the contact is connected to the agent (the success
\* callback only logs)
AcceptCompletes(c) ==
  /\ c \in 1..Len(contacts)
  /\ agentApp.accepts[c] > 0
  /\ agentApp.status[c] = "incoming"
  /\ contacts[c].state = "INCOMING"
  /\ agentApp' = [agentApp EXCEPT !.status[c] = "connected", !.notified = @ \ {c}]
  /\ contacts' = Accepted(contacts, c, AppAgent)
  /\ events' = events \cup {LifecycleEvent(c, contacts[c].channel, "CONNECTED_TO_AGENT")}
  /\ last' = [Quiet("acceptCompletes") EXCEPT !.contact = c]
  /\ UNCHANGED <<env, browser, wsClient, voiceWidget, gatewayVars, clientVars>>

\* the agent accepts the contact in the CCP; handleContactAccepted and
\* handleContactConnected only log
AgentAccepts(c) ==
  /\ c \in 1..Len(contacts)
  /\ agentApp.status[c] = "incoming"
  /\ contacts[c].state = "INCOMING"
  /\ agentApp' = [agentApp EXCEPT !.status[c] = "connected", !.notified = @ \ {c}]
  /\ contacts' = Accepted(contacts, c, AppAgent)
  /\ events' = events \cup {LifecycleEvent(c, contacts[c].channel, "CONNECTED_TO_AGENT")}
  /\ last' = [Quiet("agentAccepts") EXCEPT !.contact = c]
  /\ UNCHANGED <<env, browser, wsClient, voiceWidget, gatewayVars, clientVars>>

\* contact.onEnded, handleContactEnded
handleContactEnded(c) ==
  /\ c \in 1..Len(contacts)
  /\ agentApp.status[c] \in {"incoming", "connected"}
  /\ contacts[c].state = "ENDED"
  /\ agentApp' = [agentApp EXCEPT !.voiceContactIds = @ \ {c},
                                  !.status[c] = "ended", !.notified = @ \ {c}]
  /\ last' = [Quiet("contactEnded") EXCEPT !.contact = c]
  /\ UNCHANGED <<env, browser, wsClient, voiceWidget, serviceVars, gatewayVars, clientVars>>

\* contact.onDestroy, handleContactDestroy: the agent clears the contact
handleContactDestroy(c) ==
  /\ c \in 1..Len(contacts)
  /\ agentApp.status[c] = "ended"
  /\ agentApp' = [agentApp EXCEPT
                    !.contacts = @ \ {c},
                    !.voiceContactIds = @ \ {c},
                    !.status[c] = "destroyed"]
  /\ last' = [Quiet("contactDestroy") EXCEPT !.contact = c]
  /\ UNCHANGED <<env, browser, wsClient, voiceWidget, serviceVars, gatewayVars, clientVars>>

\* ------------------------------------------------------ WebSocket Lambda
\* an item of the connections table; present = FALSE is no item
NoRecord == [present |-> FALSE, connectedAt |-> FALSE, userId |-> "none",
             voiceContactId |-> 0, registeredAt |-> FALSE]

\* PutCommand: the item replaces whatever the key held
PutItem(reg, c, qUserId) ==
  [reg EXCEPT ![c] = [present |-> TRUE, connectedAt |-> TRUE, userId |-> qUserId,
                      voiceContactId |-> 0, registeredAt |-> FALSE]]

\* a delete that leaves the item in the table
DeleteItemKeeps(reg, c) == reg

\* DeleteCommand: no item afterwards, and no error when there was none
DeleteItem(reg, c) == [reg EXCEPT ![c] = NoRecord]

\* UpdateCommand with a SET expression and no condition: sets the attributes
\* of the item, adding the item when the key holds none
UpdateItem(reg, c, idType, registrationId) ==
  IF idType = "userId"
    THEN [reg EXCEPT ![c].present = TRUE, ![c].userId = registrationId,
                     ![c].registeredAt = TRUE]
  ELSE [reg EXCEPT ![c].present = TRUE, ![c].voiceContactId = registrationId,
                   ![c].registeredAt = TRUE]

\* a JSON payload pushed to a client
Message(type, chatContactId, voiceContactId, userId) ==
  [type |-> type, chatContactId |-> chatContactId,
   voiceContactId |-> voiceContactId, userId |-> userId]

\* the connection no longer exists for API Gateway: PostToConnection
\* answers 410
Gone(c) == transport[c] # "open"

\* what PostToConnection can answer for connection c
PostOutcomes(c) == IF Gone(c) THEN {"gone"} ELSE {"ok", "error"}


\* $connect
handleConnect(c, qUserId) ==
  /\ transport[c] = "new"
  /\ transport' = [transport EXCEPT ![c] = "open"]
  /\ registry' = PutItem(registry, c, qUserId)
  /\ last' = [Quiet("connect") EXCEPT !.conn = c, !.status = 200]
  /\ UNCHANGED <<env, browser, appVars, serviceVars, clientVars, inflight, gonePushes>>

\* the connection is lost and no $disconnect follows
TransportVanish(c) ==
  /\ transport[c] = "open"
  /\ transport' = [transport EXCEPT ![c] = "vanished"]
  /\ last' = Quiet("vanish")
  /\ UNCHANGED <<env, browser, appVars, serviceVars, clientVars, registry, inflight, gonePushes>>

\* the client closes the socket and API Gateway invokes $disconnect
handleDisconnect(c) ==
  /\ transport[c] = "open"
  /\ transport' = [transport EXCEPT ![c] = "closed"]
  /\ registry' = DeleteItem(registry, c)
  /\ last' = [Quiet("disconnect") EXCEPT !.conn = c, !.status = 200]
  /\ UNCHANGED <<env, browser, appVars, serviceVars, clientVars, inflight, gonePushes>>

\* the messages handleMessage answers 400 before any call: no body, a body
\* that is not JSON, an action that is neither 'register' nor 'ping'
MessageShapes == {"noBody", "invalidJSON", "unknownAction"}

\* a handleMessage that drops the sender's record with the message
handleMessageRejectedDropsRecord(c, shape) ==
  /\ transport[c] # "new"
  /\ registry' = DeleteItem(registry, c)
  /\ last' = [Quiet("message") EXCEPT !.conn = c, !.shape = shape, !.status = 400]
  /\ UNCHANGED <<env, browser, appVars, serviceVars, clientVars, transport, inflight, gonePushes>>

\* handleMessage for a message of one of these shapes
handleMessageRejected(c, shape) ==
  /\ transport[c] # "new"
  /\ last' = [Quiet("message") EXCEPT !.conn = c, !.shape = shape, !.status = 400]
  /\ UNCHANGED <<env, browser, appVars, serviceVars, clientVars, gatewayVars>>

\* a handleRegister without the check of registrationId
handleRegisterUnchecked(c, userId, voiceContactId) ==
  /\ transport[c] # "new"
  /\ registry' = IF userId # "none" THEN UpdateItem(registry, c, "userId", userId)
                 ELSE UpdateItem(registry, c, "voiceContactId", voiceContactId)
  /\ last' = [Quiet("register") EXCEPT
                !.conn = c, !.userId = userId, !.related = voiceContactId,
                !.status = 200]
  /\ UNCHANGED <<env, browser, appVars, serviceVars, clientVars, transport, inflight, gonePushes>>

\* handleRegister behind handleMessage's case 'register'
handleRegister(c, userId, voiceContactId) ==
  /\ transport[c] # "new"
  /\ LET idType == IF userId # "none" THEN "userId" ELSE "voiceContactId"
         missing == userId = "none" /\ voiceContactId = 0
     IN /\ registry' = IF missing THEN registry
                       ELSE IF idType = "userId"
                         THEN UpdateItem(registry, c, idType, userId)
                       ELSE UpdateItem(registry, c, idType, voiceContactId)
        /\ last' = [Quiet("register") EXCEPT
                      !.conn = c, !.userId = userId, !.related = voiceContactId,
                      !.status = IF missing THEN 400 ELSE 200]
  /\ UNCHANGED <<env, browser, appVars, serviceVars, clientVars, transport, inflight, gonePushes>>

\* the register message of the open socket reaches the WebSocket Lambda
WebSocketRegister ==
  /\ wsClient.readyState = "OPEN"
  /\ transport[wsClient.ws] = "open"
  /\ handleRegister(wsClient.ws, wsClient.userId, 0)

\* a sendToConnection that removes the record on every failed push
sendToConnectionPostReapsOnError(c, src, outcome) ==
  /\ transport[c] # "new"
  /\ outcome \in PostOutcomes(c)
  /\ outcome = "gone" => gonePushes < MaxGonePushes
  /\ inflight' = IF outcome = "gone" THEN [inflight EXCEPT ![c] = @ + 1] ELSE inflight
  /\ gonePushes' = IF outcome = "gone" THEN gonePushes + 1 ELSE gonePushes
  /\ last' = IF outcome = "gone" THEN [Quiet("post") EXCEPT !.conn = c, !.posts = 1]
             ELSE [Quiet("sendToConnection") EXCEPT
                     !.conn = c, !.shape = src, !.push = outcome, !.posts = 1,
                     !.thrown = (outcome = "error"),
                     !.message = IF outcome = "ok"
                                   THEN <<Message(IF src = "ping" THEN "pong"
                                                  ELSE "message", 0, 0, "none")>>
                                 ELSE <<>>,
                     !.status = IF outcome = "ok" THEN 200 ELSE 500]
  /\ registry' = IF outcome = "error" THEN DeleteItem(registry, c) ELSE registry
  /\ UNCHANGED <<env, browser, appVars, serviceVars, clientVars, transport>>

\* sendToConnection up to the answer of PostToConnection.  src is the
\* caller: handleMessage's case 'ping' or exports.sendMessageToConnection.
\* A 410 leaves the invocation in flight, its DeleteCommand still to come.
\* Connection ids are issued at $connect: none is pushed to before.
sendToConnectionPost(c, src, outcome) ==
  /\ transport[c] # "new"
  /\ outcome \in PostOutcomes(c)
  /\ outcome = "gone" => gonePushes < MaxGonePushes
  /\ inflight' = IF outcome = "gone" THEN [inflight EXCEPT ![c] = @ + 1] ELSE inflight
  /\ gonePushes' = IF outcome = "gone" THEN gonePushes + 1 ELSE gonePushes
  /\ last' = IF outcome = "gone" THEN [Quiet("post") EXCEPT !.conn = c, !.posts = 1]
             ELSE [Quiet("sendToConnection") EXCEPT
                     !.conn = c, !.shape = src, !.push = outcome, !.posts = 1,
                     !.thrown = (outcome = "error"),
                     !.message = IF outcome = "ok"
                                   THEN <<Message(IF src = "ping" THEN "pong"
                                                  ELSE "message", 0, 0, "none")>>
                                 ELSE <<>>,
                     !.status = IF outcome = "ok" THEN 200 ELSE 500]
  /\ UNCHANGED <<env, browser, appVars, serviceVars, clientVars, registry, transport>>

\* a 410 branch whose delete is conditional on the item and fails without it
sendToConnectionGoneConditional(c) ==
  /\ inflight[c] > 0
  /\ registry' = DeleteItem(registry, c)
  /\ inflight' = [inflight EXCEPT ![c] = @ - 1]
  /\ last' = [Quiet("sendToConnection") EXCEPT
                !.conn = c, !.push = "gone", !.thrown = ~registry[c].present,
                !.status = 500, !.removed = registry[c].present]
  /\ UNCHANGED <<env, browser, appVars, serviceVars, clientVars, transport, gonePushes>>

\* the 410 branch of sendToConnection: DeleteCommand, then the 500 response
sendToConnectionGone(c) ==
  /\ inflight[c] > 0
  /\ registry' = DeleteItem(registry, c)
  /\ inflight' = [inflight EXCEPT ![c] = @ - 1]
  /\ last' = [Quiet("sendToConnection") EXCEPT
                !.conn = c, !.push = "gone", !.thrown = FALSE, !.status = 500,
                !.removed = registry[c].present]
  /\ UNCHANGED <<env, browser, appVars, serviceVars, clientVars, transport, gonePushes>>

\* a lookup whose query is not keyed by the userId
findConnectionByUserIdUnkeyed(userId, pick) ==
  /\ LET found == {c \in ConnIds : registry[c].present}
         thrown == ~env.userIdIndex
         none == thrown \/ found = {}
     IN /\ IF none THEN pick = CHOOSE c \in ConnIds : TRUE ELSE pick \in found
        /\ last' = [Quiet("find") EXCEPT
                      !.userId = userId, !.thrown = thrown,
                      !.conn = IF none THEN "none" ELSE pick,
                      !.lookups = IF last.op = "find" /\ last.userId = userId
                                    THEN 2 ELSE 1]
  /\ UNCHANGED <<env, browser, appVars, serviceVars, gatewayVars, clientVars>>

\* exports.findConnectionByUserId: Items[0] of the userIdIndex query, null
\* when the query returns no item; pick is the item the query returns
\* first.  lookups counts the consecutive lookups of one userId.
findConnectionByUserId(userId, pick) ==
  /\ LET found == {c \in ConnIds : registry[c].present /\ registry[c].userId = userId}
         thrown == ~env.userIdIndex
         none == thrown \/ found = {}
     IN /\ IF none THEN pick = CHOOSE c \in ConnIds : TRUE ELSE pick \in found
        /\ last' = [Quiet("find") EXCEPT
                      !.userId = userId, !.thrown = thrown,
                      !.conn = IF none THEN "none" ELSE pick,
                      !.lookups = IF last.op = "find" /\ last.userId = userId
                                    THEN 2 ELSE 1]
  /\ UNCHANGED <<env, browser, appVars, serviceVars, gatewayVars, clientVars>>

\* -------------------------------------------------- contact-event Lambda
\* getUserIdFromContact: Contact.Attributes.userId of DescribeContact, or
\* nothing when the call throws or the response holds no contact
getUserIdFromContact(cs, contactId, fault) ==
  LET r == DescribeContact(cs, contactId, fault)
  IN IF r.outcome = "ok" /\ r.Contact # 0
       THEN cs[r.Contact].Attributes.userId ELSE "none"

\* the items the userIdIndex query returns; the handler takes Items[0]
QueryByUserId(reg, userId) ==
  {c \in ConnIds : reg[c].present /\ reg[c].userId = userId}

\* QueryCommand with IndexName 'userIdIndex': the service rejects the query
\* (ValidationException) when the table has no index of that name
QueryThrows(e) == ~e.userIdIndex

\* a createChatContact that does not relate the chat to the voice contact
CompanionAttributesUnrelated(cs, voiceContactId, fault) ==
  [NoAttributes EXCEPT !.userId = getUserIdFromContact(cs, voiceContactId, fault)]

\* createChatContact: the attributes of the chat it starts
CompanionAttributes(cs, voiceContactId, fault) ==
  [NoAttributes EXCEPT !.userId = getUserIdFromContact(cs, voiceContactId, fault),
                       !.relatedContactId = voiceContactId]

\* sendToWebSocket: a 410 is logged and swallowed, any other failure thrown
sendToWebSocketThrows(outcome) == outcome = "error"

\* what the handler has done and answers when it returns before any call
NoCalls ==
  [status |-> 200, describeCalls |-> 0, createCalls |-> 0,
   queried |-> FALSE, create |-> FALSE, attrs |-> NoAttributes,
   pushTo |-> "none", push |-> "none", userId |-> "none", thrown |-> FALSE]

\* a handler that answers an unresolved userId with an error
missingUserIdFails(base) == [base EXCEPT !.status = 500, !.describeCalls = 1]

\* the return after getUserIdFromContact gave no userId: 200, nothing else
\* is called
missingUserId(base) == [base EXCEPT !.describeCalls = 1]

\* a handler that starts the chat before it looks the connection up
connectionNotFoundAfterCreate(base, userId) ==
  [base EXCEPT !.describeCalls = 2, !.createCalls = 1, !.queried = TRUE,
               !.userId = userId]

\* the return after findConnectionByUserId gave no connection: 200, no chat
\* is started and nothing is pushed
connectionNotFound(base, userId) ==
  [base EXCEPT !.describeCalls = 1, !.queried = TRUE, !.userId = userId]

\* a handler that starts a chat for the agent-connected event of a chat too
agentConnectedAnyChannel(e, cs, reg, ev, f1, f2, pick, createFails, outcome) ==
  LET base == NoCalls
      userId == getUserIdFromContact(cs, ev.contactId, f1)
      found == QueryByUserId(reg, userId)
  IN IF userId = "none" THEN missingUserId(base)
     ELSE IF QueryThrows(e)
       THEN [base EXCEPT !.thrown = TRUE, !.describeCalls = 1,
                         !.queried = TRUE, !.userId = userId]
     ELSE IF found = {} THEN connectionNotFound(base, userId)
     ELSE IF ev.channel \in {"VOICE", "CHAT"}
       THEN IF createFails
              THEN [base EXCEPT !.thrown = TRUE, !.describeCalls = 2,
                                !.createCalls = 1, !.queried = TRUE,
                                !.userId = userId]
            ELSE [base EXCEPT
                    !.thrown = sendToWebSocketThrows(outcome),
                    !.describeCalls = 2, !.createCalls = 1,
                    !.queried = TRUE, !.create = TRUE,
                    !.attrs = CompanionAttributes(cs, ev.contactId, f2),
                    !.pushTo = pick, !.push = outcome, !.userId = userId]
     ELSE [base EXCEPT
             !.thrown = sendToWebSocketThrows(outcome),
             !.describeCalls = 1, !.queried = TRUE,
             !.pushTo = pick, !.push = outcome, !.userId = userId]

\* the branch of exports.handler for eventType CONNECTED_TO_AGENT.  f1 and
\* f2 are the faults of the two DescribeContact calls, pick the item the
\* query returns first, outcome the answer of PostToConnection.  thrown:
\* a call inside the try block threw and the branch was left there.
agentConnected(e, cs, reg, ev, f1, f2, pick, createFails, outcome) ==
  LET base == NoCalls
      userId == getUserIdFromContact(cs, ev.contactId, f1)
      found == QueryByUserId(reg, userId)
  IN IF userId = "none" THEN missingUserId(base)
     ELSE IF QueryThrows(e)
       THEN [base EXCEPT !.thrown = TRUE, !.describeCalls = 1,
                         !.queried = TRUE, !.userId = userId]
     ELSE IF found = {} THEN connectionNotFound(base, userId)
     ELSE IF ev.channel = "VOICE"
       THEN IF createFails
              THEN [base EXCEPT !.thrown = TRUE, !.describeCalls = 2,
                                !.createCalls = 1, !.queried = TRUE,
                                !.userId = userId]
            ELSE [base EXCEPT
                    !.thrown = sendToWebSocketThrows(outcome),
                    !.describeCalls = 2, !.createCalls = 1,
                    !.queried = TRUE, !.create = TRUE,
                    !.attrs = CompanionAttributes(cs, ev.contactId, f2),
                    !.pushTo = pick, !.push = outcome, !.userId = userId]
     ELSE [base EXCEPT
             !.thrown = sendToWebSocketThrows(outcome),
             !.describeCalls = 1, !.queried = TRUE,
             !.pushTo = pick, !.push = outcome, !.userId = userId]

\* a handler without the catch: what is thrown inside leaves the handler
handlerRethrows(r) == [r EXCEPT !.status = IF r.thrown THEN 0 ELSE @]

\* the catch of exports.handler: whatever is thrown inside the try block is
\* logged and answered with statusCode 500
handlerCatch(r) ==
  IF r.thrown THEN [r EXCEPT !.status = 500, !.thrown = FALSE] ELSE r

\* a handler that treats every event as an agent-connected event
contactEventHandlerAnyEvent(e, cs, reg, ev, f1, f2, pick, createFails, outcome) ==
  handlerCatch(agentConnected(e, cs, reg, ev, f1, f2, pick, createFails, outcome))

\* exports.handler for one event: only eventType CONNECTED_TO_AGENT is
\* handled, every other event is answered 200 'Event ignored'
contactEventHandler(e, cs, reg, ev, f1, f2, pick, createFails, outcome) ==
  handlerCatch(
    IF ev.eventType # "CONNECTED_TO_AGENT" THEN NoCalls
    ELSE agentConnected(e, cs, reg, ev, f1, f2, pick, createFails, outcome))

\* a CHAT_AGENT_CONNECTED message that does not name the session
ChatAgentConnectedAnonymous(contactId, userId) ==
  Message("CHAT_AGENT_CONNECTED", contactId, 0, "none")

\* the message of the CHAT branch: {type, chatContactId, userId}
ChatAgentConnected(contactId, userId) ==
  Message("CHAT_AGENT_CONNECTED", contactId, 0, userId)

AnyConn == CHOOSE c \in ConnIds : TRUE

\* the number of chats the event router has started
Companions(cs) ==
  Cardinality({c \in 1..Len(cs) : cs[c].channel = "CHAT"
                                  /\ cs[c].Attributes.relatedContactId # 0})

\* exports.handler invoked with an event whose detail carries
\* attributes.userId = eventUserId ("none": the detail has no attributes).
\* The handler destructures contactId, eventType, channel and agentInfo from
\* detail and reads nothing else of it.
HandleEvent(ev, eventUserId, f1, f2, pick, createFails, outcome) ==
  /\ ev \in events
  /\ LET r == contactEventHandler(env, contacts, registry, ev, f1, f2, pick,
                                  createFails, outcome)
         chatId == Len(contacts) + 1
         message == IF ev.channel = "VOICE"
                      THEN Message("CHAT_CONTACT_CREATED", chatId, ev.contactId, r.userId)
                    ELSE ChatAgentConnected(ev.contactId, r.userId)
     IN /\ IF r.pushTo # "none"
             THEN pick \in QueryByUserId(registry, r.userId)
                  /\ outcome \in PostOutcomes(pick)
           ELSE pick = AnyConn /\ outcome = "ok"
        /\ r.describeCalls < 2 => f2 = "none"
        /\ r.createCalls = 0 => ~createFails
        /\ r.describeCalls = 0 => f1 = "none"
        /\ r.createCalls > 0 => Companions(contacts) < MaxCompanions
        /\ contacts' = IF r.create
                         THEN Append(contacts, NewContact("CHAT", r.attrs))
                       ELSE contacts
        /\ events' = IF r.create
                       THEN events \cup {LifecycleEvent(chatId, "CHAT", "INITIATED")}
                     ELSE events
        /\ last' = [Quiet("contactEvent") EXCEPT
                      !.contact = ev.contactId, !.shape = ev.channel,
                      !.eventType = ev.eventType, !.eventUserId = eventUserId,
                      !.fault = IF f1 # "none" THEN f1 ELSE f2,
                      !.created = IF r.create THEN chatId ELSE 0,
                      !.userId = r.userId, !.status = r.status,
                      !.thrown = r.thrown,
                      !.posts = IF r.pushTo # "none" THEN 1 ELSE 0,
                      !.describeCalls = r.describeCalls,
                      !.createCalls = r.createCalls, !.queried = r.queried,
                      !.conn = r.pushTo, !.push = r.push,
                      !.message = IF r.push = "ok" THEN <<message>> ELSE <<>>]
  /\ UNCHANGED <<env, browser, appVars, clientVars, registry, transport, inflight, gonePushes>>

\* exports.handler invoked with an event that has no detail: the
\* destructuring of detail throws a TypeError inside the try block
HandleEventWithoutDetail ==
  /\ LET r == handlerCatch([NoCalls EXCEPT !.thrown = TRUE])
     IN last' = [Quiet("malformedEvent") EXCEPT
                   !.shape = "noDetail", !.status = r.status, !.thrown = r.thrown]
  /\ UNCHANGED <<env, browser, appVars, serviceVars, clientVars, gatewayVars>>

\* exports.handler invoked with a contact event as EventBridge delivers it
HandleContactEvent(ev, f1, f2, pick, createFails, outcome) ==
  HandleEvent(ev, "none", f1, f2, pick, createFails, outcome)

\* --------------------------------------------------------- specification
\* the faults of DescribeContact the event router is run against: the call
\* succeeds or throws
EventFaults == {"none", "Exception"}

Init ==
  /\ env \in [AWS_REGION : Regions, userIdIndex : {TRUE}]
  /\ contacts = <<>>
  /\ events = {}
  /\ registry = [c \in ConnIds |-> NoRecord]
  /\ transport = [c \in ConnIds |-> "new"]
  /\ inflight = [c \in ConnIds |-> 0]
  /\ gonePushes = 0
  /\ store = "none"
  /\ chatWidget = 0
  /\ escalationWidget = NoEscalation
  /\ wsClient = NewWebSocketClient
  /\ browser = NewBrowser
  /\ voiceWidget = 0
  /\ agentApp = NewAppState
  /\ last = Quiet("init")

\* One browser session: the identifier its getUserId generates and the
\* WebSocket connection its WebSocketClient opens.
SessionUserId == "u1"
SessionConn == "conn-1"

\* The escalation flow: a chat of the session, its escalation to voice,
\* other callers of POST /start-voice-contact, and the service routing and
\* serving the contacts.
InitEscalation == Init /\ env.AWS_REGION = "us-west-2"

NextEscalation ==
  \/ \E f \in BOOLEAN : ChatWidgetStart(SessionUserId, f)
  \/ \E f \in BOOLEAN, t \in BOOLEAN : handleEscalationClick(f, t)
  \/ \E related \in RequestIds, f \in BOOLEAN : StartVoiceRequest(related, f)
  \/ ChatWidgetEnded
  \/ \E c \in 1..MaxContacts, fault \in DescribeFaults : RouteContact(c, fault)
  \/ \E c \in 1..MaxContacts, a \in Agents : AgentConnect(c, a)
  \/ \E c \in 1..MaxContacts : EndContact(c)

SpecEscalation == InitEscalation /\ [][NextEscalation]_vars

\* The direct voice flow: a voice contact of the session, the session's
\* connection, the event router starting the companion chat, and the
\* service routing and serving the contacts.
NextVoice ==
  \/ \E f \in BOOLEAN : VoiceWidgetStart(SessionUserId, f)
  \/ handleConnect(SessionConn, "none")
  \/ store # "none" /\ handleRegister(SessionConn, store, 0)
  \/ /\ Len(contacts) < MaxContacts
     /\ \E ev \in events, f2 \in EventFaults, outcome \in {"ok", "error"} :
          HandleContactEvent(ev, "none", f2, SessionConn, FALSE, outcome)
  \/ \E c \in 1..MaxContacts, fault \in DescribeFaults : RouteContact(c, fault)
  \/ \E c \in 1..MaxContacts, a \in Agents : AgentConnect(c, a)
  \/ \E c \in 1..MaxContacts : EndContact(c)

SpecVoice == Init /\ [][NextVoice]_vars

\* The router on its own: voice contacts of the session, chats that other
\* callers start with a relatedContactId attribute naming any contact or
\* none that exists, events lacking a part, and the service serving the
\* contacts.
NextRouting ==
  \/ \E f \in BOOLEAN : VoiceWidgetStart(SessionUserId, f)
  \/ \E related \in RequestIds, f \in BOOLEAN : StartChatRequest(related, f)
  \/ \E c \in 1..MaxContacts, fault \in DescribeFaults : RouteContact(c, fault)
  \/ \E shape \in MalformedShapes : RouteMalformed(shape)
  \/ \E c \in 1..MaxContacts, a \in Agents : AgentConnect(c, a)
  \/ \E c \in 1..MaxContacts : EndContact(c)

SpecRouting == Init /\ [][NextRouting]_vars

\* The session identifier: every caller of getUserId in the page, and the
\* store being cleared.
NextSession ==
  \/ \E fresh \in FreshIds : GetUserId(fresh)
  \/ ClearUserId
  \/ \E fresh \in FreshIds, f \in BOOLEAN : ChatWidgetStart(fresh, f)
  \/ \E fresh \in FreshIds, f \in BOOLEAN : VoiceWidgetStart(fresh, f)

SpecSession == Init /\ [][NextSession]_vars

\* The gateway and the event router are checked from the service states the
\* flows above reach once an agent is connected: a direct voice contact or
\* a chat contact of the session.  The gateway is checked with the chat
\* contact, whose events make the event router push and start no contact.
Connected(channel, userId, agent) ==
  [NewContact(channel, [NoAttributes EXCEPT !.userId = userId])
     EXCEPT !.state = "CONNECTED", !.agent = agent, !.queue = DEFAULT_QUEUE_ARN]

ConnectedServices ==
  { <<Connected("VOICE", "u1", "agent-1")>>,
    <<Connected("CHAT", "u1", "agent-1")>> }

EventsOf(cs) ==
  UNION { { LifecycleEvent(c, cs[c].channel, "INITIATED"),
            LifecycleEvent(c, cs[c].channel, "CONNECTED_TO_AGENT") } : c \in 1..Len(cs) }

InitGateway ==
  /\ env \in [AWS_REGION : {"us-west-2"}, userIdIndex : BOOLEAN]
  /\ contacts \in {cs \in ConnectedServices : cs[1].channel = "CHAT"}
  /\ events = EventsOf(contacts)
  /\ registry = [c \in ConnIds |-> NoRecord]
  /\ transport = [c \in ConnIds |-> "new"]
  /\ inflight = [c \in ConnIds |-> 0]
  /\ gonePushes = 0
  /\ store = "u1"
  /\ chatWidget = IF contacts[1].channel = "CHAT" THEN 1 ELSE 0
  /\ escalationWidget = NoEscalation
  /\ wsClient = NewWebSocketClient
  /\ browser = NewBrowser
  /\ voiceWidget = 0
  /\ agentApp = NewAppState
  /\ last = Quiet("init")

PostAnswers == {"ok", "error", "gone"}

\* the identifiers looked up: the session's, and one no connection holds
LookupIds == {"u1", "u2"}

NextGateway ==
  \/ \E c \in ConnIds : handleConnect(c, "none")
  \/ \E c \in ConnIds : TransportVanish(c)
  \/ \E c \in ConnIds : handleDisconnect(c)
  \/ \E c \in ConnIds : handleRegister(c, store, 0)
  \/ \E c \in ConnIds, src \in {"ping", "sendMessageToConnection"},
        outcome \in PostAnswers : sendToConnectionPost(c, src, outcome)
  \/ \E c \in ConnIds : sendToConnectionGone(c)
  \/ \E userId \in LookupIds, pick \in ConnIds : findConnectionByUserId(userId, pick)
  \/ \E ev \in events, f1 \in EventFaults, f2 \in EventFaults,
        pick \in ConnIds, createFails \in BOOLEAN, outcome \in PostAnswers :
       HandleContactEvent(ev, f1, f2, pick, createFails, outcome)

SpecGateway == InitGateway /\ [][NextGateway]_vars

\* The teardown of a voice call with its companion chat: the widgets of the
\* page hold both contacts, an agent serves the voice contact, and either
\* side can end either contact.  The hang-up buttons are shown while the
\* VoiceWidget holds a contact.
Companion(userId, voiceContactId, agent) ==
  [NewContact("CHAT", [NoAttributes EXCEPT !.userId = userId,
                                           !.relatedContactId = voiceContactId])
     EXCEPT !.queue = Arn("us-west-2", AccountId, InstanceId, agent)]

InitTeardown ==
  /\ env = [AWS_REGION |-> "us-west-2", userIdIndex |-> TRUE]
  /\ \E a \in Agents :
       contacts = <<Connected("VOICE", "u1", a), Companion("u1", 1, a)>>
  /\ events = EventsOf(<<contacts[1]>>) \cup {LifecycleEvent(2, "CHAT", "INITIATED")}
  /\ registry = [c \in ConnIds |-> NoRecord]
  /\ transport = [c \in ConnIds |-> "new"]
  /\ inflight = [c \in ConnIds |-> 0]
  /\ gonePushes = 0
  /\ store = "u1"
  /\ chatWidget = 2
  /\ escalationWidget = NoEscalation
  /\ wsClient = NewWebSocketClient
  /\ browser = NewBrowser
  /\ voiceWidget = 1
  /\ agentApp = NewAppState
  /\ last = Quiet("init")

NextTeardown ==
  \/ voiceWidget # 0 /\ hangupAll
  \/ voiceWidget # 0 /\ endVoiceOnly
  \/ ChatWidgetEnd
  \/ ChatWidgetEnded
  \/ VoiceWidgetDisconnected
  \/ \E c \in 1..MaxContacts, a \in Agents : AgentConnect(c, a)
  \/ \E c \in 1..MaxContacts : EndContact(c)

SpecTeardown == InitTeardown /\ [][NextTeardown]_vars

\* The agent app: the session's contacts reach the agent in any order: a
\* voice contact started by the VoiceWidget, a chat started by the
\* ChatWidget and escalated to voice, chats that other callers start with a
\* relatedContactId attribute; the router queues them, the agent accepts
\* or the app does, either side ends them.
NextAgentApp ==
  \/ \E f \in BOOLEAN : VoiceWidgetStart(SessionUserId, f)
  \/ \E f \in BOOLEAN : ChatWidgetStart(SessionUserId, f)
  \/ \E f \in BOOLEAN : handleEscalationClick(f, TRUE)
  \/ \E related \in 1..MaxContacts, f \in BOOLEAN : StartChatRequest(related, f)
  \/ \E c \in 1..MaxContacts : RouteContact(c, "none")
  \/ \E c \in 1..MaxContacts : handleContactEvent(c)
  \/ \E c \in 1..MaxContacts : handleContactIncoming(c)
  \/ \E c \in 1..MaxContacts : AcceptCompletes(c)
  \/ \E c \in 1..MaxContacts : AgentAccepts(c)
  \/ \E c \in 1..MaxContacts : EndContact(c)
  \/ \E c \in 1..MaxContacts : handleContactEnded(c)
  \/ \E c \in 1..MaxContacts : handleContactDestroy(c)

SpecAgentApp == InitEscalation /\ [][NextAgentApp]_vars

\* The WebSocketClient of one browser session: the page connects and
\* disconnects, connections open, are lost with or without $disconnect,
\* and the client reconnects.  No code of the page calls clearUserId.
NextReconnect ==
  \/ \E c \in Sockets, fresh \in FreshIds : WebSocketConnect(c, fresh)
  \/ wsClient.ws \in ConnIds /\ handleConnect(wsClient.ws, "none")
  \/ WebSocketOnOpen
  \/ WebSocketRegister
  \/ \E c \in ConnIds : TransportVanish(c)
  \/ \E c \in ConnIds : handleDisconnect(c)
  \/ \E wasClean \in BOOLEAN : WebSocketOnClose(wasClean)
  \/ \E c \in Sockets, fresh \in FreshIds : WebSocketReconnect(c, fresh)
  \/ WebSocketDisconnect

SpecReconnect == Init /\ [][NextReconnect]_vars

\* The WebSocketClient with all the WebSocket objects it has created: the
\* page connects and disconnects at any time, sockets open and close, and
\* reconnect timers fire.
NextSockets ==
  \/ PageConnect(SessionUserId)
  \/ \E s \in SocketIds : SocketOpen(s)
  \/ \E s \in SocketIds, wasClean \in BOOLEAN : SocketClose(s, wasClean)
  \/ ReconnectTimer(SessionUserId)
  \/ PageDisconnect

SpecSockets == Init /\ [][NextSockets]_vars

\* The WebSocket Lambda with every message a peer can send: $connect with
\* or without a userId in the query string, register with a userId, with
\* the legacy voiceContactId, with both or with neither, ping, and messages
\* handleMessage rejects; connections close with or without $disconnect.
\* The only caller of sendToConnection here is the ping case.
QueryUserIds == {"none", "u1"}
RegisterUserIds == {"none", "u1", "u2"}
RegisterVoiceContactIds == {0, 1}

NextMessages ==
  \/ \E c \in ConnIds, q \in QueryUserIds : handleConnect(c, q)
  \/ \E c \in ConnIds : TransportVanish(c)
  \/ \E c \in ConnIds : handleDisconnect(c)
  \/ \E c \in ConnIds, userId \in RegisterUserIds, v \in RegisterVoiceContactIds :
       handleRegister(c, userId, v)
  \/ \E c \in ConnIds, outcome \in PostAnswers : sendToConnectionPost(c, "ping", outcome)
  \/ \E c \in ConnIds : sendToConnectionGone(c)
  \/ \E c \in ConnIds, shape \in MessageShapes : handleMessageRejected(c, shape)

SpecMessages == InitEscalation /\ [][NextMessages]_vars

\* The event router with the session's connections: every agent-connected
\* event of the voice or the chat contact, delivered any number of times,
\* with every fault of the calls the handler makes.
InitEventRouter ==
  /\ env = [AWS_REGION |-> "us-west-2", userIdIndex |-> TRUE]
  /\ contacts \in ConnectedServices
  /\ events = EventsOf(contacts)
  /\ registry = [c \in ConnIds |-> NoRecord]
  /\ transport = [c \in ConnIds |-> "new"]
  /\ inflight = [c \in ConnIds |-> 0]
  /\ gonePushes = 0
  /\ store = "u1"
  /\ chatWidget = IF contacts[1].channel = "CHAT" THEN 1 ELSE 0
  /\ escalationWidget = NoEscalation
  /\ wsClient = NewWebSocketClient
  /\ browser = NewBrowser
  /\ voiceWidget = 0
  /\ agentApp = NewAppState
  /\ last = Quiet("init")

NextEventRouter ==
  \/ \E c \in ConnIds : handleConnect(c, "none")
  \/ \E c \in ConnIds : TransportVanish(c)
  \/ \E c \in ConnIds : handleDisconnect(c)
  \/ \E c \in ConnIds : handleRegister(c, store, 0)
  \/ \E ev \in events, f1 \in EventFaults, f2 \in EventFaults,
        pick \in ConnIds, createFails \in BOOLEAN, outcome \in PostAnswers :
       HandleContactEvent(ev, f1, f2, pick, createFails, outcome)

SpecEventRouter == InitEventRouter /\ [][NextEventRouter]_vars

\* The event router invoked with events that carry attributes.userId in
\* their detail, or none
EventUserIds == {"none", "u1", "u2"}

NextResolve ==
  \/ \E c \in ConnIds : handleConnect(c, "none")
  \/ \E c \in ConnIds : TransportVanish(c)
  \/ \E c \in ConnIds : handleDisconnect(c)
  \/ \E c \in ConnIds : handleRegister(c, store, 0)
  \/ \E ev \in events, u \in EventUserIds, f1 \in EventFaults, f2 \in EventFaults,
        pick \in ConnIds, createFails \in BOOLEAN, outcome \in PostAnswers :
       HandleEvent(ev, u, f1, f2, pick, createFails, outcome)
  \/ HandleEventWithoutDetail

SpecResolve == InitEventRouter /\ [][NextResolve]_vars

\* The event router and the service: the chats the event router starts are
\* routed and connected to agents, and their events come back to the event
\* router.
NextCascade ==
  \/ \E c \in ConnIds : handleConnect(c, "none")
  \/ \E c \in ConnIds : handleRegister(c, store, 0)
  \/ \E ev \in events, f1 \in EventFaults, f2 \in EventFaults,
        pick \in ConnIds, createFails \in BOOLEAN, outcome \in {"ok", "error"} :
       HandleContactEvent(ev, f1, f2, pick, createFails, outcome)
  \/ \E c \in 1..(1 + MaxCompanions) : RouteContact(c, "none")
  \/ \E c \in 1..(1 + MaxCompanions), a \in Agents : AgentConnect(c, a)

SpecCascade == InitEventRouter /\ [][NextCascade]_vars

\* ------------------------------------------------------------ properties
\* The orchestrator's POST /start-voice-contact, as its tests describe it:
\* what a describe-contact on the request's relatedContactId reports when
\* the handler starts.  The related contact existed before the call unless
\* it is the contact the call itself created.
RelatedExisted ==
  last.related \in 1..Len(contacts) /\ last.related # last.created

ValidationError ==
  IF ~RelatedExisted THEN "RELATED_CONTACT_NOT_FOUND"
  ELSE IF contacts[last.related].channel # "CHAT" THEN "INVALID_RELATED_CONTACT_TYPE"
  ELSE IF contacts[last.related].state = "ENDED" THEN "INACTIVE_RELATED_CONTACT"
  ELSE "none"

StartVoiceWithRelated ==
  last.op \in {"escalate", "startVoiceRequest"} /\ last.related # 0

\* C1: POST /start-voice-contact with a relatedContactId never calls
\* StartWebRTCContact when describe-contact on that id fails, reports a
\* channel other than chat, or reports an ended contact.
C1_NoCreateWithoutValidation ==
  StartVoiceWithRelated /\ ValidationError # "none" => last.createCalls = 0

\* C2: when the validation of relatedContactId fails the response is a 400
\* carrying the kind of the first failing check: not found, then not a
\* chat, then not active.
C2_ValidationErrorKind ==
  StartVoiceWithRelated /\ ValidationError # "none" =>
    last.status = 400 /\ last.errorCode = ValidationError

\* C3: a voice contact created for a relatedContactId that passes validation
\* carries relatedContactId = the chat's id in its attributes, and, when the
\* widget of a session escalates, that session's userId.
C3_EscalatedAttributes ==
  StartVoiceWithRelated /\ ValidationError = "none" /\ last.status = 200 =>
    /\ contacts[last.created].Attributes.relatedContactId = last.related
    /\ last.op = "escalate" =>
         contacts[last.created].Attributes.userId = last.userId

\* C4: every contact created for the browser session (chat start, voice
\* start, escalation, and the companion chat the event router starts)
\* carries the session's userId as its userId attribute.
C4_SessionConsistency ==
  /\ last.op \in {"startChat", "startVoice", "escalate"} /\ last.status = 200 =>
       contacts[last.created].Attributes.userId = store
  /\ last.op = "contactEvent" /\ last.created # 0 =>
       contacts[last.created].Attributes.userId = last.userId

\* C5: when the router is invoked for the voice contact the widget created
\* by escalating a chat that has an agent, the contact carries
\* relatedContactId = the chat's id and the router returns the personal
\* queue of that agent.
C5_AgentContinuity ==
  LET chat == escalationWidget.chatContactId
  IN /\ last.op = "route" /\ last.fault = "none"
     /\ last.contact # 0 /\ last.contact = escalationWidget.voiceContactId
     /\ contacts[chat].agent # "none"
     => /\ last.related = chat
        /\ last.queueArn = getAgentQueueArn(env, contacts[chat].agent)

\* The router's describe step, seen from the state after the invocation:
\* the related contact is described when the call is not made to fail and
\* the id names a contact.
RouteDescribed ==
  /\ last.related # 0
  /\ last.fault = "none"
  /\ last.related \in 1..Len(contacts)

RouteHasAgent == RouteDescribed /\ contacts[last.related].agent # "none"

C6_ReachesNoAgent ==
  last.op = "route" /\ RouteDescribed /\ ~RouteHasAgent

C6_ReachesNotFound ==
  last.op = "route" /\ last.related # 0 /\ last.fault = "none"
  /\ last.related \notin 1..Len(contacts)

C8_UnsetRegionDefault ==
  last.op = "route" /\ env.AWS_REGION = "undefined" =>
    last.queueArn = DEFAULT_QUEUE_ARN

\* a push that PostToConnection answered 410 has completed
GonePushCompleted(op) == last.op = op /\ last.push = "gone"

C9_ReachesEventRouterGone ==
  GonePushCompleted("contactEvent") /\ registry[last.conn].present

\* C10: every completion of a gateway push answered 410 raises no error and
\* leaves no record of the connection; it removes the record when there is
\* one, and when an earlier push has removed it already the table stays as
\* it is.
C10_IdempotentReaping ==
  [][last'.op = "sendToConnection" /\ last'.push = "gone" =>
       /\ ~last'.thrown
       /\ ~registry'[last'.conn].present
       /\ last'.removed = registry[last'.conn].present
       /\ ~registry[last'.conn].present => registry' = registry]_vars

\* two pushes to one lost connection answered 410 have both completed, the
\* first removed the record and the second found none: no other connection
\* was ever gone, and the lost one held its record when it was lost
C10_Witness ==
  /\ GonePushCompleted("sendToConnection")
  /\ transport[last.conn] = "vanished"
  /\ \A c \in ConnIds \ {last.conn} : transport[c] \in {"new", "open"}
  /\ gonePushes >= 2
  /\ \A c \in ConnIds : inflight[c] = 0
  /\ ~last.removed /\ ~last.thrown
  /\ ~registry[last.conn].present

\* the two pushes are concurrent: both were answered 410 before either
\* deleted, one has completed and removed the record, the other is to delete
C10_ReachesConcurrent ==
  /\ GonePushCompleted("sendToConnection")
  /\ last.removed
  /\ inflight[last.conn] = 1

\* the connections whose record holds the userId
RecordsOf(userId) ==
  {c \in ConnIds : registry[c].present /\ registry[c].userId = userId}

\* C11: a lookup by userId made right after a successful register of that
\* userId on connection C, C's record being the only one that holds it,
\* returns the record of C.
C11_LookupAfterRegister ==
  [][/\ last.op = "register" /\ last.status = 200 /\ last.userId # "none"
     /\ RecordsOf(last.userId) = {last.conn}
     /\ last'.op = "find" /\ last'.userId = last.userId
     => ~last'.thrown /\ last'.conn = last.conn]_vars

RouterServed(channel) ==
  /\ last.op = "contactEvent" /\ last.eventType = "CONNECTED_TO_AGENT"
  /\ last.shape = channel
  /\ last.fault = "none"
  /\ contacts[last.contact].Attributes.userId # "none"
  /\ env.userIdIndex
  /\ RecordsOf(contacts[last.contact].Attributes.userId) # {}
  /\ last.status = 200

C14_SameMessageOnRedelivery ==
  [][/\ last.op = "contactEvent" /\ last'.op = "contactEvent"
     /\ last.eventType = "CONNECTED_TO_AGENT"
     /\ last'.eventType = last.eventType
     /\ last'.contact = last.contact /\ last'.shape = last.shape
     /\ last.push = "ok" /\ last'.push = "ok"
     => last'.message = last.message]_vars

\* C15: when an agent is connected to a chat that carries no
\* relatedContactId and whose session has a registered connection, the
\* message pushed to the connection is ENABLE_ESCALATION for that chat; no
\* ENABLE_ESCALATION is pushed for a chat that carries a relatedContactId.
C15_EscalationEnablement ==
  /\ /\ RouterServed("CHAT") /\ last.push = "ok"
     /\ contacts[last.contact].Attributes.relatedContactId = 0
     => last.message =
          <<Message("ENABLE_ESCALATION", last.contact, 0, last.userId)>>
  /\ /\ last.op = "contactEvent" /\ last.push = "ok"
     /\ contacts[last.contact].Attributes.relatedContactId # 0
     => last.message[1].type # "ENABLE_ESCALATION"

\* the actions that call getUserId and record the identifier it returned
GetUserIdCallers == {"getUserId", "startChat", "startVoice"}

\* C16: getUserId is idempotent within a session.  Every call returns an
\* identifier that is in the store when the call returns; a call on a store
\* that holds an identifier returns that identifier and leaves the store as
\* it is, so a different identifier is returned only after the store has
\* been cleared.
C16_GetUserIdIdempotent ==
  [][last'.op \in GetUserIdCallers =>
       /\ last'.userId # "none"
       /\ store' = last'.userId
       /\ store # "none" => last'.userId = store]_vars

\* a second call in a row, on a store the first call filled with "u2", has
\* returned
C16_Witness ==
  /\ last.op = "getUserId" /\ last.lookups = 2
  /\ last.userId = "u2" /\ store = "u2"

\* C17: a stop of a contact that is already ended is success for the
\* caller.  When hangupAll's stop of the voice contact is rejected because
\* the contact has ended, nothing is raised and the teardown goes on: the
\* chat the page holds is stopped as well.
C17_StopIdempotentForCaller ==
  (/\ last.op = "hangupAll"
   /\ last.errorCode = "ContactNotFoundException") =>
     /\ ~last.thrown
     /\ last.related # 0 => last.stopCalls = 2

\* C18: every contact is created with the InitiationMethod attribute of its
\* interaction type: Chat for a chat started by ChatWidget.start, Voice for
\* a voice contact started without relatedContactId, Chat for an escalated
\* voice contact (started with relatedContactId).
C18_InitiationMethod ==
  (/\ last.op \in {"startChat", "startVoice", "escalate"}
   /\ last.status = 200) =>
     contacts[last.created].Attributes.InitiationMethod =
       IF last.op = "startVoice" THEN "Voice" ELSE "Chat"

\* C19: the agent app calls accept by itself only on a chat contact whose
\* relatedContactId names a voice contact that the agent has accepted and
\* that is still active; never on a voice contact, never on a chat without
\* such a relatedContactId.
C19_AutoAcceptOnly ==
  last.accept =>
    /\ contacts[last.contact].channel = "CHAT"
    /\ last.related \in 1..Len(contacts)
    /\ contacts[last.related].channel = "VOICE"
    /\ agentApp.status[last.related] = "connected"

\* C20: the SessionId is stable across reconnects.  Every record of the
\* connections table that a connection of the session registered carries
\* the identifier the session's store holds, so the connection opened by a
\* reconnect is registered with the identifier of the connection before it.
C20_SessionIdStable ==
  /\ \A c \in ConnIds :
       registry[c].present /\ registry[c].userId # "none" =>
         registry[c].userId = store
  /\ last.op = "register" /\ last.status = 200 => last.userId = store

\* the connection opened by a reconnect has been registered while the
\* record of the lost connection before it is still in the table
C20_Witness ==
  /\ last.op = "register" /\ last.status = 200
  /\ last.conn = wsClient.ws
  /\ \E c \in ConnIds \ {wsClient.ws} :
       /\ transport[c] = "vanished"
       /\ registry[c].present /\ registry[c].userId # "none"

\* C21: register only updates an existing record.  A register message for
\* a connection whose record is no longer in the table reports a failure
\* and creates nothing, so once the disconnect of a connection has been
\* processed the table holds no record for it.
C21_AttachOnlyUpdates ==
  [][/\ (last'.op = "register" /\ ~registry[last'.conn].present) =>
          (last'.status # 200 /\ registry' = registry)
     /\ \A c \in ConnIds : transport'[c] = "closed" => ~registry'[c].present]_vars

\* C22 as stated: a register message without a sessionId is answered 400
\* and leaves the table as it is.
C22_RegisterWithoutSessionId ==
  [][(last'.op = "register" /\ last'.userId = "none") =>
       (last'.status = 400 /\ registry' = registry)]_vars

\* C22: a register message with neither a userId nor a voiceContactId is
\* answered 400 and leaves the table as it is: no record is created,
\* updated or deleted.
C22_RegisterWithoutId ==
  [][(last'.op = "register" /\ last'.userId = "none" /\ last'.related = 0) =>
       (last'.status = 400 /\ registry' = registry)]_vars

\* a register without any id has been answered on an open connection
\* whose record is in the table
C22_Witness ==
  /\ last.op = "register" /\ last.userId = "none" /\ last.related = 0
  /\ last.status = 400
  /\ transport[last.conn] = "open" /\ registry[last.conn].present

\* what last.op is while and after handleMessage handles a ping or rejects
\* a message
PingOrRejected == {"post", "sendToConnection", "message"}

\* C23 as stated: handling a ping (its pong push included), an unknown
\* action, an empty body or invalid JSON never changes the table.
C23_NoRegistryMutation ==
  [][last'.op \in PingOrRejected => registry' = registry]_vars

\* C23: handling an unknown action, an empty body or invalid JSON never
\* changes the table, and neither does a ping, except that a ping whose
\* pong push is answered 410 removes the record of the sender, and that
\* record only.
C23_NoRegistryMutationUnlessGone ==
  [][last'.op \in PingOrRejected =>
       \/ registry' = registry
       \/ /\ last'.op = "sendToConnection" /\ last'.push = "gone"
          /\ registry' = DeleteItem(registry, last'.conn)]_vars

\* a pong has been pushed to a sender whose record holds a userId
C23_Witness ==
  /\ last.op = "sendToConnection" /\ last.shape = "ping" /\ last.push = "ok"
  /\ registry[last.conn].present /\ registry[last.conn].userId # "none"

\* a ping on a connection that is gone has removed the sender's record
C23_ReachesPingReaps ==
  /\ last.op = "sendToConnection" /\ last.push = "gone" /\ last.removed

\* C24: every record is created at $connect as a bare record without a
\* userId, and a record acquires a userId only through a register message
\* on its connection.
C24_BareAtConnect ==
  [][\A c \in ConnIds :
       /\ (~registry[c].present /\ registry'[c].present) =>
            /\ last'.op = "connect" /\ last'.conn = c
            /\ registry'[c].userId = "none"
       /\ (registry[c].userId = "none" /\ registry'[c].userId # "none") =>
            (last'.op = "register" /\ last'.conn = c)]_vars

\* C25: a record is mutated once by register.  Once a userId is attached to
\* a connection no later operation changes the userId stored for it, as
\* long as the record is in the table.
C25_RegisteredOnce ==
  [][\A c \in ConnIds :
       (registry[c].present /\ registry[c].userId # "none" /\ registry'[c].present)
         => registry'[c].userId = registry[c].userId]_vars

\* C26: in every state at most one record of the table carries a given
\* userId, also after a reconnect of the client.
C26_OneRecordPerSession ==
  \A c1 \in ConnIds, c2 \in ConnIds :
    (/\ registry[c1].present /\ registry[c2].present
     /\ registry[c1].userId # "none"
     /\ registry[c1].userId = registry[c2].userId) => c1 = c2

\* C27: for an event whose eventType is not CONNECTED_TO_AGENT the event
\* router makes no DescribeContact call, no lookup, starts no contact,
\* pushes nothing, and answers 200.
C27_OtherEventsIgnored ==
  (last.op = "contactEvent" /\ last.eventType # "CONNECTED_TO_AGENT") =>
    /\ last.status = 200
    /\ last.describeCalls = 0 /\ ~last.queried
    /\ last.createCalls = 0 /\ last.created = 0
    /\ last.conn = "none" /\ last.push = "none" /\ last.message = <<>>

\* the INITIATED event of a contact whose userId is registered on an open
\* connection has been handled
C27_Witness ==
  /\ last.op = "contactEvent" /\ last.eventType = "INITIATED"
  /\ \E c \in RecordsOf(contacts[last.contact].Attributes.userId) :
       transport[c] = "open"

\* the event router has handled an agent-connected event of a contact
\* whose userId did not resolve: the contact has none, or DescribeContact
\* failed
Unresolved ==
  /\ last.op = "contactEvent" /\ last.eventType = "CONNECTED_TO_AGENT"
  /\ \/ last.fault # "none" /\ last.describeCalls = 1
     \/ contacts[last.contact].Attributes.userId = "none"

NotFound ==
  /\ last.op = "contactEvent" /\ last.eventType = "CONNECTED_TO_AGENT"
  /\ last.userId # "none"
  /\ env.userIdIndex
  /\ RecordsOf(last.userId) = {}

\* C29: when the lookup finds no connection for the resolved userId the
\* event router answers 200, starts no chat (also for a voice contact) and
\* pushes nothing.
C29_NoConnectionIsNoOp ==
  NotFound =>
    /\ last.status = 200
    /\ last.queried
    /\ last.createCalls = 0 /\ last.created = 0
    /\ last.conn = "none" /\ last.push = "none" /\ last.message = <<>>

\* the agent-connected event of the voice contact has been handled after
\* the session's connection was closed and its record removed
C29_Witness ==
  /\ NotFound /\ last.shape = "VOICE"
  /\ \E c \in ConnIds : transport[c] = "closed"

\* C30: for an agent-connected event of a chat contact whose userId and
\* connection resolve, the event router starts no contact and posts one
\* CHAT_AGENT_CONNECTED message with chatContactId = the event's contactId
\* and the userId, to a connection registered for the userId.
C30_ChatAgentConnected ==
  RouterServed("CHAT") =>
    LET userId == contacts[last.contact].Attributes.userId
    IN /\ last.createCalls = 0 /\ last.created = 0
       /\ last.userId = userId
       /\ last.conn \in RecordsOf(userId)
       /\ last.push \in {"ok", "gone"}
       /\ last.push = "ok" =>
            last.message = <<[type |-> "CHAT_AGENT_CONNECTED",
                              chatContactId |-> last.contact,
                              voiceContactId |-> 0, userId |-> userId]>>

\* the message has arrived on the one connection registered for the userId
C30_Witness ==
  /\ RouterServed("CHAT")
  /\ last.push = "ok"
  /\ RecordsOf(last.userId) = {last.conn}
  /\ last.message[1].chatContactId = last.contact

\* C31: when the agent-connected event carries attributes.userId the event
\* router uses that value and makes no DescribeContact call to resolve it.
C31_PrefersEventAttributes ==
  (/\ last.op = "contactEvent" /\ last.eventType = "CONNECTED_TO_AGENT"
   /\ last.eventUserId # "none") =>
    /\ last.userId = last.eventUserId
    /\ last.shape = "CHAT" => last.describeCalls = 0

C32_ReachesMalformed == last.op = "malformedEvent" /\ last.status = 500

\* a push that PostToConnection answered with a failure other than 410 has
\* completed
FailedPush(l) == l.op \in {"sendToConnection", "contactEvent"} /\ l.push = "error"

\* C33: a push that fails for another reason than 410 is thrown to the
\* caller (the event router's handler answers 500 for it), PostToConnection
\* was called once, and the table is left as it was: no record is deleted
\* and no delete is pending.
C33_OtherFailurePropagated ==
  [][FailedPush(last') =>
       /\ last'.posts = 1
       /\ last'.status = 500
       /\ last'.op = "sendToConnection" => last'.thrown
       /\ registry' = registry /\ inflight' = inflight
       /\ ~last'.removed]_vars

\* a push to an open connection whose record is in the table has failed
C33_Witness ==
  /\ FailedPush(last) /\ last.op = "sendToConnection"
  /\ transport[last.conn] = "open" /\ registry[last.conn].present

\* the push of the event router has failed
C33_ReachesRouterFailure ==
  /\ FailedPush(last) /\ last.op = "contactEvent"
  /\ registry[last.conn].present

\* C34: when a record of the contact's userId belongs to a connection that
\* is open while the agent-connected event is handled, and no call of the
\* handler fails, the message is delivered to an open connection of that
\* userId, whatever other records carry the userId.
C34_ReachesLiveConnection ==
  (/\ RouterServed("VOICE") \/ RouterServed("CHAT")
   /\ \E c \in RecordsOf(last.userId) : transport[c] = "open") =>
    /\ last.push = "ok"
    /\ transport[last.conn] = "open"

\* C35: a chat the event router has started is announced: when the handler
\* ends, the CHAT_CONTACT_CREATED message for the chat has been delivered,
\* or the chat has been ended again.
C35_CompanionAnnounced ==
  (last.op = "contactEvent" /\ last.created # 0) =>
    \/ last.push = "ok"
    \/ contacts[last.created].state = "ENDED"

\* C36: one handled event starts at most one contact, only the
\* agent-connected event of a voice contact starts one, and the event of a
\* contact that carries relatedContactId (a chat the event router started)
\* starts none.
C36_NoCascade ==
  [][last'.op = "contactEvent" =>
       /\ last'.createCalls <= 1
       /\ Len(contacts') <= Len(contacts) + 1
       /\ (last'.createCalls > 0 \/ contacts' # contacts) =>
            /\ last'.shape = "VOICE"
            /\ last'.eventType = "CONNECTED_TO_AGENT"
            /\ contacts[last'.contact].Attributes.relatedContactId = 0
       /\ contacts[last'.contact].Attributes.relatedContactId # 0 =>
            contacts' = contacts /\ last'.createCalls = 0]_vars

\* the agent-connected event of a chat the event router started has been
\* handled and its CHAT_AGENT_CONNECTED message delivered
C36_Witness ==
  /\ last.op = "contactEvent" /\ last.eventType = "CONNECTED_TO_AGENT"
  /\ contacts[last.contact].Attributes.relatedContactId # 0
  /\ contacts[last.contact].Attributes.userId = "u1"
  /\ last.push = "ok"

\* C37: when the agent-connected event of the voice contact that
\* VoiceWidget.start created is handled, a record registered with the
\* session's userId is in the table, so the event is not dropped as
\* connection not found while the client has not closed its connection.
C37_RegisteredBeforeAgentConnected ==
  (/\ last.op = "contactEvent" /\ last.eventType = "CONNECTED_TO_AGENT"
   /\ voiceWidget # 0 /\ last.contact = voiceWidget
   /\ transport[SessionConn] \in {"new", "open"}) =>
    /\ RecordsOf(store) # {}
    /\ ~(last.queried /\ last.conn = "none" /\ last.createCalls = 0)

\* C38: between two opens the reconnect timers call connect() at most
\* maxReconnectAttempts times; a reconnect is scheduled only by an unclean
\* close; a clean close schedules none.
C38_ReconnectBounded ==
  [][/\ browser'.attempts <= maxReconnectAttempts
     /\ browser'.timers > browser.timers =>
          last'.op = "wsClose" /\ last'.shape = "unclean"
     /\ (last'.op = "wsClose" /\ last'.shape = "clean") =>
          /\ browser'.timers = browser.timers
          /\ wsClient'.reconnectAttempts = wsClient.reconnectAttempts]_vars

\* the parts of C38 about what schedules a reconnect
C38_ScheduledByUncleanCloseOnly ==
  [][/\ wsClient'.reconnectAttempts <= maxReconnectAttempts
     /\ browser'.timers > browser.timers =>
          last'.op = "wsClose" /\ last'.shape = "unclean"
     /\ (last'.op = "wsClose" /\ last'.shape = "clean") =>
          /\ browser'.timers = browser.timers
          /\ wsClient'.reconnectAttempts = wsClient.reconnectAttempts]_vars

\* C39: isConnected is true exactly when the socket this.ws holds is open.
C39_IsConnectedIffOpen ==
  wsClient.isConnected <=>
    (wsClient.ws # "none" /\ browser.sockets[wsClient.ws] = "OPEN")

\* the close event of a socket that this.ws no longer holds has set
\* isConnected to false while the socket this.ws holds is open
C39_ReachesLateClose ==
  /\ last.op = "wsClose" /\ last.conn # wsClient.ws
  /\ wsClient.ws # "none" /\ browser.sockets[wsClient.ws] = "OPEN"
  /\ ~wsClient.isConnected

\* C40: the agent app calls accept at most once on a chat contact.
C40_AcceptAtMostOnce ==
  \A c \in 1..Len(contacts) :
    contacts[c].channel = "CHAT" => agentApp.accepts[c] <= 1

====
